---------------------------- MODULE Spec2Model ----------------------------
(***************************************************************************)
(* HomeHub front-end: the relay-status reconciler (shortcuts-enhance.js),  *)
(* its boolean-coercion helper, and the two variants of the slide-out      *)
(* navigation menu (menu.js).                                              *)
(*                                                                         *)
(* JavaScript values are tagged records.  A string is a sequence of        *)
(* one-character strings, so that trim(), toLowerCase() and Number() are   *)
(* computed character by character.  A finite number is                    *)
(*     sign * (q * 2^32 + i + 0.fd)                                        *)
(* with i < 2^31 and fd its decimal fraction digits without trailing       *)
(* zeros: ToInt32 (the |0 of the code) drops q and fd.                     *)
(***************************************************************************)
EXTENDS Integers, Sequences, FiniteSets, TLC

VARIABLES
    tbArg, tbRes,                                   \* toBool harness
    payload, built,                                 \* snapshot-builder harness
    variant, anchors, menuPc, sidebarOff, overlayHidden, panelStyle,
    ariaExpanded, path, active, events,             \* navigation menu
    readyState, hasLoadIcons, wrapped, scriptPc, listener, page, text, on,
    recons, calls                                   \* status reconciler

boolVars  == <<tbArg, tbRes>>
snapVars  == <<payload, built>>
menuVars  == <<variant, anchors, menuPc, sidebarOff, overlayHidden, panelStyle,
               ariaExpanded, path, active, events>>
reconVars == <<readyState, hasLoadIcons, wrapped, scriptPc, listener, page,
               text, on, recons, calls>>
vars      == <<boolVars, snapVars, menuVars, reconVars>>

(***************************************************************************)
(* JavaScript values                                                       *)
(***************************************************************************)
JSUndefined == [t |-> "undefined"]
JSNull      == [t |-> "null"]
JSBool(b)   == [t |-> "boolean", b |-> b]
JSStr(s)    == [t |-> "string", s |-> s]
JSNaN       == [t |-> "number", k |-> "nan", neg |-> FALSE, q |-> 0, i |-> 0, fd |-> <<>>]
JSInf(neg)  == [t |-> "number", k |-> "inf", neg |-> neg, q |-> 0, i |-> 0, fd |-> <<>>]
JSFin(neg, q, i, fd) ==
    [t |-> "number", k |-> "fin", neg |-> neg, q |-> q, i |-> i, fd |-> fd]
JSInt(n)    == IF n < 0 THEN JSFin(TRUE, 0, 0 - n, <<>>) ELSE JSFin(FALSE, 0, n, <<>>)

\* v !== 0 for a number (NaN and the infinities are not 0; -0 is)
NumIsZero(v) == v.k = "fin" /\ v.q = 0 /\ v.i = 0 /\ v.fd = <<>>

\* Number.isFinite
NumIsFinite(v) == v.t = "number" /\ v.k = "fin"

(***************************************************************************)
(* Strings                                                                 *)
(***************************************************************************)
WhiteSpace == {" ", "\t", "\n"}

Uppers == <<"A","B","C","D","E","F","G","H","I","J","K","L","M",
            "N","O","P","Q","R","S","T","U","V","W","X","Y","Z">>
Lowers == <<"a","b","c","d","e","f","g","h","i","j","k","l","m",
            "n","o","p","q","r","s","t","u","v","w","x","y","z">>

LowerChar(c) ==
    IF \E k \in DOMAIN Uppers : Uppers[k] = c
    THEN Lowers[CHOOSE k \in DOMAIN Uppers : Uppers[k] = c]
    ELSE c

UpperChar(c) ==
    IF \E k \in DOMAIN Lowers : Lowers[k] = c
    THEN Uppers[CHOOSE k \in DOMAIN Lowers : Lowers[k] = c]
    ELSE c

\* String.prototype.toLowerCase
ToLowerCase(s) == [k \in DOMAIN s |-> LowerChar(s[k])]

RECURSIVE TrimStart(_)
TrimStart(s) ==
    IF s # <<>> /\ Head(s) \in WhiteSpace THEN TrimStart(Tail(s)) ELSE s

RECURSIVE TrimEnd(_)
TrimEnd(s) ==
    IF s # <<>> /\ s[Len(s)] \in WhiteSpace
    THEN TrimEnd(SubSeq(s, 1, Len(s) - 1))
    ELSE s

\* String.prototype.trim
Trim(s) == TrimEnd(TrimStart(s))

(***************************************************************************)
(* toBool                                                                  *)
(***************************************************************************)
TruthyWords == { <<"1">>, <<"t","r","u","e">>, <<"o","n">>, <<"y","e","s">> }

\* a slip that forgets the trim()
toBoolNoTrim(v) ==
    IF v.t = "boolean" THEN v.b
    ELSE IF v.t \in {"null", "undefined"} THEN FALSE
    ELSE IF v.t = "number" THEN ~NumIsZero(v)
    ELSE ToLowerCase(v.s) \in TruthyWords

toBool(v) ==
    IF v.t = "boolean" THEN v.b
    ELSE IF v.t \in {"null", "undefined"} THEN FALSE
    ELSE IF v.t = "number" THEN ~NumIsZero(v)
    ELSE ToLowerCase(Trim(v.s)) \in TruthyWords


(***************************************************************************)
(* Number(string), ToInt32 (x|0) and ToBoolean (!!x)                       *)
(*                                                                         *)
(* Number() is modelled for decimal literals with an optional sign and an  *)
(* optional fraction, for "Infinity" and for the empty string; the strings *)
(* used as inputs hold no exponent and no 0x/0b/0o prefix.                 *)
(***************************************************************************)
Digits == <<"0","1","2","3","4","5","6","7","8","9">>

IsDigit(c) == \E k \in DOMAIN Digits : Digits[k] = c

DigitVal(c) == (CHOOSE k \in DOMAIN Digits : Digits[k] = c) - 1

AllDigits(s) == \A k \in DOMAIN s : IsDigit(s[k])

RECURSIVE DecimalValue(_)
DecimalValue(s) ==
    IF s = <<>> THEN 0
    ELSE 10 * DecimalValue(SubSeq(s, 1, Len(s) - 1)) + DigitVal(s[Len(s)])

RECURSIVE StripTrailingZeros(_)
StripTrailingZeros(s) ==
    IF s # <<>> /\ s[Len(s)] = "0"
    THEN StripTrailingZeros(SubSeq(s, 1, Len(s) - 1))
    ELSE s

InfinityWord == <<"I","n","f","i","n","i","t","y">>

\* the unsigned part of a numeric string: digits [. digits] | . digits | Infinity
UnsignedNumber(neg, r) ==
    IF r = InfinityWord THEN JSInf(neg)
    ELSE LET dots == {k \in DOMAIN r : r[k] = "."}
             dot  == IF dots = {} THEN Len(r) + 1
                     ELSE CHOOSE k \in dots : \A m \in dots : k <= m
             ip   == SubSeq(r, 1, dot - 1)
             fp   == SubSeq(r, dot + 1, Len(r))
         IN  IF AllDigits(ip) /\ AllDigits(fp) /\ Len(ip) + Len(fp) >= 1
             THEN JSFin(neg, 0, DecimalValue(ip), StripTrailingZeros(fp))
             ELSE JSNaN

\* Number(s) for a string s
StringToNumber(s) ==
    LET u == Trim(s)
    IN  IF u = <<>> THEN JSFin(FALSE, 0, 0, <<>>)
        ELSE IF Head(u) = "-" THEN UnsignedNumber(TRUE, Tail(u))
        ELSE IF Head(u) = "+" THEN UnsignedNumber(FALSE, Tail(u))
        ELSE UnsignedNumber(FALSE, u)

\* Number(v)
ToNumber(v) ==
    CASE v.t = "number"    -> v
      [] v.t = "string"    -> StringToNumber(v.s)
      [] v.t = "boolean"   -> IF v.b THEN JSInt(1) ELSE JSInt(0)
      [] v.t = "null"      -> JSInt(0)
      [] OTHER             -> JSNaN

\* v|0: truncate, then reduce modulo 2^32 into the signed 32-bit range
ToInt32(v) ==
    LET n == ToNumber(v)
    IN  IF n.k # "fin" THEN 0
        ELSE IF n.neg THEN 0 - n.i ELSE n.i

\* !!v
ToBoolean(v) ==
    CASE v.t \in {"undefined", "null"} -> FALSE
      [] v.t = "boolean"               -> v.b
      [] v.t = "number"                -> v.k # "nan" /\ ~NumIsZero(v)
      [] v.t = "string"                -> v.s # <<>>
      [] OTHER                         -> TRUE

(***************************************************************************)
(* The /ipx/status response body and the snapshot built from it            *)
(***************************************************************************)
Capacity == 32

JSArr(a)          == [t |-> "array", a |-> a]
JSEntry(relay, o) == [t |-> "entry", relay |-> relay, on |-> o]
JSBody(relays)    == [t |-> "body", relays |-> relays]

IsNullish(v) == v.t \in {"undefined", "null"}

\* j.relays, it.relay and it.on of a value that is not null or undefined
RelaysOf(j) == IF j.t = "body" THEN j.relays ELSE JSUndefined
RelayOf(it) == IF it.t = "entry" THEN it.relay ELSE JSUndefined
OnOf(it)    == IF it.t = "entry" THEN it.on ELSE JSUndefined

\* new Array(32).fill(false)
AllOff == [k \in 0 .. Capacity - 1 |-> FALSE]

\* the body of the forEach callback
ApplyEntry(states, it) ==
    LET idx0 == ToInt32(RelayOf(it)) - 1
    IN  IF idx0 >= 0 /\ idx0 < Cardinality(DOMAIN states)
        THEN [states EXCEPT ![idx0] = ToBoolean(OnOf(it))]
        ELSE states

\* forEach: reading it.relay of a null entry throws and ends the loop
RECURSIVE ForEachEntry(_, _)
ForEachEntry(entries, states) ==
    IF entries = <<>> THEN [states |-> states, threw |-> FALSE]
    ELSE IF IsNullish(Head(entries)) THEN [states |-> states, threw |-> TRUE]
    ELSE ForEachEntry(Tail(entries), ApplyEntry(states, Head(entries)))

\* lines 34-40, for the parsed body j: the array as the code leaves it, and
\* whether a TypeError left the block early
BuildStates(j) ==
    IF IsNullish(j) THEN [states |-> AllOff, threw |-> TRUE]
    ELSE LET rl   == RelaysOf(j)
             list == IF ToBoolean(rl) THEN rl ELSE JSArr(<<>>)
         IN  IF list.t # "array" THEN [states |-> AllOff, threw |-> TRUE]
             ELSE ForEachEntry(list.a, AllOff)

(***************************************************************************)
(* Navigation menu.  Two variants of menu.js exist: "anchored" wires the   *)
(* elements #menuBtn, #sidebar and #overlay of the page, "selfbuilt"       *)
(* creates its own button, panel and backdrop.  A path or an href is a     *)
(* sequence of tokens: "/" or a segment (a non-empty string without "/").  *)
(***************************************************************************)
Variants == {"anchored", "selfbuilt"}

Links == << <<"/">>,
            <<"/", "events">>,
            <<"/", "weather">>,
            <<"/", "ipx">>,
            <<"/", "inputs">>,
            <<"/", "health", "/", "ui">> >>

\* replace(/\/+$/, '')
RECURSIVE StripTrailingSlashes(_)
StripTrailingSlashes(p) ==
    IF p # <<>> /\ p[Len(p)] = "/"
    THEN StripTrailingSlashes(SubSeq(p, 1, Len(p) - 1))
    ELSE p

\* a slip that strips one trailing slash only: replace(/\/$/, '')
CurrentRouteOneSlash(p) ==
    LET s == IF p # <<>> /\ p[Len(p)] = "/" THEN SubSeq(p, 1, Len(p) - 1) ELSE p
    IN  IF s = <<>> THEN <<"/">> ELSE s

\* location.pathname.replace(/\/+$/, '') || '/'
CurrentRoute(p) ==
    LET s == StripTrailingSlashes(p)
    IN  IF s = <<>> THEN <<"/">> ELSE s

\* the links the forEach marks
ActiveLinks(p) == {k \in DOMAIN Links : Links[k] = CurrentRoute(p)}

\* the panel is in view: the inline transform of the self-built panel wins
\* over its -translate-x-full class
IsOpen ==
    IF panelStyle # "" THEN panelStyle = "translateX(0%)" ELSE ~sidebarOff

open ==
    IF variant = "anchored"
    THEN /\ sidebarOff' = FALSE
         /\ overlayHidden' = FALSE
         /\ ariaExpanded' = "true"
         /\ UNCHANGED panelStyle
    ELSE /\ overlayHidden' = FALSE
         /\ panelStyle' = "translateX(0%)"
         /\ UNCHANGED <<sidebarOff, ariaExpanded>>

close ==
    IF variant = "anchored"
    THEN /\ sidebarOff' = TRUE
         /\ overlayHidden' = TRUE
         /\ ariaExpanded' = "false"
         /\ UNCHANGED panelStyle
    ELSE /\ overlayHidden' = TRUE
         /\ panelStyle' = "translateX(-100%)"
         /\ UNCHANGED <<sidebarOff, ariaExpanded>>

MaxEvents == 2

Logged(e) ==
    /\ menuPc = "ready"
    /\ Len(events) < MaxEvents
    /\ events' = Append(events, e)
    /\ UNCHANGED <<variant, anchors, menuPc, path, active>>

\* the script body: the early return, then the highlight of the active link
MenuInit ==
    /\ menuPc = "boot"
    /\ IF variant = "anchored" /\ ~anchors
       THEN menuPc' = "off" /\ UNCHANGED active
       ELSE menuPc' = "ready" /\ active' = ActiveLinks(path)
    /\ UNCHANGED <<variant, anchors, sidebarOff, overlayHidden, panelStyle,
                   ariaExpanded, path, events>>
    /\ UNCHANGED <<boolVars, snapVars, reconVars>>

\* a slip that opens on every click, whatever aria-expanded says
TriggerHandlerAlwaysOpens == open

\* the click listener of the trigger button
TriggerHandler ==
    IF variant = "anchored"
    THEN IF ariaExpanded = "true" THEN close ELSE open
    ELSE open

TriggerClick ==
    /\ Logged("click")
    /\ TriggerHandler
    /\ UNCHANGED <<boolVars, snapVars, reconVars>>

BackdropClick ==
    /\ Logged("backdrop")
    /\ close
    /\ UNCHANGED <<boolVars, snapVars, reconVars>>

\* #menu-close exists in the self-built panel only
CloseButtonClick ==
    /\ variant = "selfbuilt"
    /\ Logged("closeBtn")
    /\ close
    /\ UNCHANGED <<boolVars, snapVars, reconVars>>

Keys == {"Escape", "Enter"}

KeyDown ==
    \E key \in Keys :
        /\ Logged(key)
        /\ IF key = "Escape" THEN close
           ELSE UNCHANGED <<sidebarOff, overlayHidden, panelStyle, ariaExpanded>>
        /\ UNCHANGED <<boolVars, snapVars, reconVars>>

(***************************************************************************)
(* Status reconciler                                                       *)
(*                                                                         *)
(* A control is [source, ipxIndex, display]: data-source ("none" when the  *)
(* attribute is absent), data-ipx-index (a string, or undefined) and       *)
(* whether the control holds a .js-display element.  A snapshot is         *)
(* [isNull, a]: the value of the variable `states` after the try block.    *)
(***************************************************************************)
Control(source, ipxIndex, display) ==
    [source |-> source, ipxIndex |-> ipxIndex, display |-> display]

NullSnapshot == [isNull |-> TRUE, a |-> AllOff]
ArraySnapshot(a) == [isNull |-> FALSE, a |-> a]

\* states[idx0] for a number idx0: an element for the keys "0" .. "31",
\* undefined for every other key (-1, 1.5, 32, ...); -0 is the key "0"
StatesAt(a, idx0) ==
    IF idx0.fd = <<>> /\ idx0.q = 0 /\ (~idx0.neg \/ idx0.i = 0) /\ idx0.i \in DOMAIN a
    THEN JSBool(a[idx0.i])
    ELSE JSUndefined

\* applyFromText: the state read from the text of .js-display
applyFromText(c, txt) ==
    LET val == IF c.display THEN txt ELSE <<>>
    IN  toBool(JSStr(val))

\* a slip that takes data-ipx-index for the 1-based relay number
PaintControlOneBased(c, txt, snap) ==
    LET idx0 == ToNumber(c.ipxIndex)
    IN  IF c.source = "ipx" /\ NumIsFinite(idx0)
        THEN IF snap.isNull THEN FALSE
             ELSE ToBoolean(StatesAt(snap.a, JSFin(idx0.neg, idx0.q, idx0.i - 1, idx0.fd)))
        ELSE applyFromText(c, txt)

\* the body of the forEach over .icon-btn: the is-on class of one control
PaintControl(c, txt, snap) ==
    LET idx0 == ToNumber(c.ipxIndex)
    IN  IF c.source = "ipx" /\ NumIsFinite(idx0)
        THEN IF snap.isNull THEN FALSE ELSE ToBoolean(StatesAt(snap.a, idx0))
        ELSE applyFromText(c, txt)

\* how the fetch ended: the request failed, the response was not ok, its
\* body was no JSON, or it was ok with the parsed body
NetErr      == [kind |-> "neterr", body |-> JSUndefined]
NotOk       == [kind |-> "notok", body |-> JSUndefined]
BadJson     == [kind |-> "badjson", body |-> JSUndefined]
OkBody(j)   == [kind |-> "ok", body |-> j]

\* the try block: the value of `states` it leaves and whether it threw
TryBlock(o) ==
    CASE o.kind = "neterr"  -> [snap |-> NullSnapshot, threw |-> TRUE]
      [] o.kind = "notok"   -> [snap |-> NullSnapshot, threw |-> FALSE]
      [] o.kind = "badjson" -> [snap |-> NullSnapshot, threw |-> TRUE]
      [] OTHER              -> LET b == BuildStates(o.body)
                               IN  [snap |-> ArraySnapshot(b.states), threw |-> b.threw]

\* a slip that leaves the fetch outside the try block
EscapesUncaught(tb) == tb.threw

\* catch(e){}: nothing the try block throws leaves applyFromIPX
Escapes(tb) == FALSE

(***************************************************************************)
(* The pages, texts and response bodies the reconciler is run on           *)
(***************************************************************************)
Attr(s) == JSStr(s)

\* Scenario B of the specification: an ipx control and a text control
PageScenarioB ==
    << Control("ipx", Attr(<<"2">>), TRUE),
       Control("other", JSUndefined, TRUE) >>

\* one control per shape of data-source / data-ipx-index
PageEdges ==
    << Control("ipx", Attr(<<"0">>), TRUE),
       Control("ipx", Attr(<<"2">>), TRUE),
       Control("ipx", Attr(<<"3","1">>), TRUE),
       Control("ipx", Attr(<<"3","2">>), TRUE),
       Control("ipx", Attr(<<"-","1">>), TRUE),
       Control("ipx", Attr(<<"1",".","5">>), TRUE),
       Control("ipx", Attr(<<"a","b","c">>), TRUE),
       Control("ipx", JSUndefined, TRUE),
       Control("other", Attr(<<"2">>), TRUE),
       Control("none", Attr(<<"0">>), TRUE),
       Control("ipx", Attr(<<>>), TRUE),
       Control("ipx", Attr(<<" ","2"," ">>), TRUE),
       Control("ipx", Attr(<<"I","n","f","i","n","i","t","y">>), TRUE),
       Control("ipx", Attr(<<"2",".","0">>), TRUE),
       Control("other", Attr(<<"0">>), FALSE),
       Control("ipx", Attr(<<"-","0">>), TRUE) >>

Pages == {PageScenarioB, PageEdges}

TextOn  == <<"O","N">>
TextOff == <<"o","f","f">>
TextYes == <<" ","Y","e","s","\n">>
Texts   == {TextOn, TextOff, TextYes}

Relay(n, b) == JSEntry(JSInt(n), JSBool(b))

\* Scenario C of the specification
BodyScenarioC == JSBody(JSArr(<<Relay(1, TRUE), Relay(33, TRUE)>>))
BodyHigh      == JSBody(JSArr(<<Relay(3, TRUE), Relay(32, TRUE)>>))
BodyNoRelays  == JSBody(JSUndefined)
Bodies        == {BodyScenarioC, BodyHigh, BodyNoRelays}

(***************************************************************************)
(* Reconciler: the script, the page's DOMContentLoaded, calls of the       *)
(* wrapped window.loadIcons, and the two awaits of applyFromIPX.           *)
(* recons lists the runs of applyFromIPX in the order they started;        *)
(* origin 0 is the startup run, origin k the k-th call of the wrapper.     *)
(***************************************************************************)
MaxCalls == 1

NewRecon(origin) ==
    [origin |-> origin, pc |-> "fetch", kind |-> "pending", snap |-> NullSnapshot]

\* applyFromIPX up to its first await: the fetch is issued
StartRecon(origin) == recons' = Append(recons, NewRecon(origin))

InFlight(r) == recons[r].pc \in {"fetch", "json"}

\* the script body: wrap window.loadIcons, then run now or on DOMContentLoaded
ScriptRuns ==
    /\ scriptPc = "boot"
    /\ scriptPc' = "ran"
    /\ wrapped' = hasLoadIcons
    /\ IF readyState = "loading"
       THEN listener' = TRUE /\ UNCHANGED recons
       ELSE StartRecon(0) /\ UNCHANGED listener
    /\ UNCHANGED <<readyState, hasLoadIcons, page, text, on, calls>>
    /\ UNCHANGED <<boolVars, snapVars, menuVars>>

\* the document finishes parsing; the {once:true} listener, if any, runs
DOMContentLoaded ==
    /\ readyState = "loading"
    /\ readyState' = "interactive"
    /\ IF listener
       THEN StartRecon(0) /\ listener' = FALSE
       ELSE UNCHANGED <<recons, listener>>
    /\ UNCHANGED <<hasLoadIcons, wrapped, scriptPc, page, text, on, calls>>
    /\ UNCHANGED <<boolVars, snapVars, menuVars>>

\* the page calls window.loadIcons, which is the wrapper
CallLoadIcons ==
    /\ wrapped
    /\ Len(calls) < MaxCalls
    /\ calls' = Append(calls, [pc |-> "orig"])
    /\ UNCHANGED <<readyState, hasLoadIcons, wrapped, scriptPc, listener, page,
                   text, on, recons>>
    /\ UNCHANGED <<boolVars, snapVars, menuVars>>

\* a slip that does not await run(): the wrapper returns at once
OrigSettlesNoAwait ==
    \E k \in DOMAIN calls :
        /\ calls[k].pc = "orig"
        /\ \/ \E t \in Texts :
                /\ text' = [c \in DOMAIN page |-> t]
                /\ StartRecon(k)
                /\ calls' = [calls EXCEPT ![k].pc = "returned"]
           \/ /\ calls' = [calls EXCEPT ![k].pc = "threw"]
              /\ UNCHANGED <<text, recons>>
        /\ UNCHANGED <<readyState, hasLoadIcons, wrapped, scriptPc, listener, page, on>>
        /\ UNCHANGED <<boolVars, snapVars, menuVars>>

\* await origLoadIcons.apply(this, arguments) settles: the host routine has
\* rendered the icons (every control now displays the text t) and the
\* wrapper goes on to run(), or it threw and the wrapper rethrows
OrigSettles ==
    \E k \in DOMAIN calls :
        /\ calls[k].pc = "orig"
        /\ \/ \E t \in Texts :
                /\ text' = [c \in DOMAIN page |-> t]
                /\ StartRecon(k)
                /\ calls' = [calls EXCEPT ![k].pc = "run"]
           \/ /\ calls' = [calls EXCEPT ![k].pc = "threw"]
              /\ UNCHANGED <<text, recons>>
        /\ UNCHANGED <<readyState, hasLoadIcons, wrapped, scriptPc, listener, page, on>>
        /\ UNCHANGED <<boolVars, snapVars, menuVars>>

\* the rest of applyFromIPX once the try block is left with outcome o: the
\* controls are painted, and the wrapper that awaited this run returns
Finish(r, o) ==
    LET tb == TryBlock(o)
        k  == recons[r].origin
    IN  IF Escapes(tb)
        THEN /\ recons' = [recons EXCEPT ![r].pc = "rejected", ![r].kind = o.kind]
             /\ calls' = IF k > 0 THEN [calls EXCEPT ![k].pc = "threw"] ELSE calls
             /\ UNCHANGED on
        ELSE /\ recons' = [recons EXCEPT ![r].pc = "done", ![r].kind = o.kind,
                                         ![r].snap = tb.snap]
             /\ calls' = IF k > 0 /\ calls[k].pc = "run"
                         THEN [calls EXCEPT ![k].pc = "returned"] ELSE calls
             /\ on' = [c \in DOMAIN page |-> PaintControl(page[c], text[c], tb.snap)]

\* await fetch(...) settles
FetchSettles ==
    \E r \in DOMAIN recons :
        /\ recons[r].pc = "fetch"
        /\ \/ \E o \in {NetErr, NotOk} : Finish(r, o)
           \/ /\ recons' = [recons EXCEPT ![r].pc = "json"]
              /\ UNCHANGED <<on, calls>>
        /\ UNCHANGED <<readyState, hasLoadIcons, wrapped, scriptPc, listener, page, text>>
        /\ UNCHANGED <<boolVars, snapVars, menuVars>>

\* await r.json() settles
JsonSettles ==
    \E r \in DOMAIN recons :
        /\ recons[r].pc = "json"
        /\ \E o \in {BadJson} \cup {OkBody(j) : j \in Bodies} : Finish(r, o)
        /\ UNCHANGED <<readyState, hasLoadIcons, wrapped, scriptPc, listener, page, text>>
        /\ UNCHANGED <<boolVars, snapVars, menuVars>>

(***************************************************************************)
(* Harnesses of the two pure functions: toBool and the snapshot builder    *)
(***************************************************************************)
MaxPad == 1
MaxEntries == 2
MaxPathLen == 5

SeqsUpTo(S, n) == UNION {[1 .. m -> S] : m \in 0 .. n}

\* every upper/lower-case spelling of a word
Casings(w) ==
    {[k \in DOMAIN w |-> IF k \in U THEN UpperChar(w[k]) ELSE w[k]] : U \in SUBSET DOMAIN w}

PadStrings == SeqsUpTo(WhiteSpace, MaxPad)

BaseWords ==
    TruthyWords \cup { <<>>, <<"0">>, <<"2">>, <<"n","o">>, <<"o","f","f">>,
                       <<"t","r","u">>, <<"o"," ","n">> }

StringInputs ==
    {pre \o w \o post : pre \in PadStrings, post \in PadStrings,
                        w \in UNION {Casings(b) : b \in BaseWords}}

NumberInputs ==
    { JSInt(0), JSInt(1), JSInt(0 - 1), JSInt(2), JSFin(FALSE, 0, 3, <<5>>),
      JSFin(TRUE, 0, 0, <<>>), JSFin(FALSE, 0, 0, <<5>>), JSFin(FALSE, 1, 0, <<>>) }

BoolInputs ==
    {JSBool(TRUE), JSBool(FALSE), JSNull, JSUndefined}
        \cup NumberInputs \cup {JSStr(x) : x \in StringInputs}

ToBoolCall ==
    \E v \in BoolInputs :
        /\ ~tbRes.done
        /\ tbArg' = v
        /\ tbRes' = [done |-> TRUE, value |-> toBool(v)]
        /\ UNCHANGED <<snapVars, menuVars, reconVars>>

RelayVals ==
    { JSInt(1), JSInt(2), JSInt(32), JSInt(33), JSInt(0), JSInt(0 - 1),
      JSFin(FALSE, 0, 2, <<5>>), JSFin(FALSE, 0, 32, <<5>>), JSFin(FALSE, 1, 1, <<>>),
      JSStr(<<"3">>), JSUndefined }

OnVals == {JSBool(TRUE), JSBool(FALSE)}

Entries ==
    {JSNull, JSInt(5)} \cup {JSEntry(r, o) : r \in RelayVals, o \in OnVals}

Payloads ==
    {JSNull, JSBody(JSUndefined), JSBody(JSInt(0)), JSBody(JSInt(5))}
        \cup {JSBody(JSArr(a)) : a \in SeqsUpTo(Entries, MaxEntries)}

BuildSnapshot ==
    /\ ~built.done
    /\ built' = [done |-> TRUE] @@ BuildStates(payload)
    /\ UNCHANGED <<payload, boolVars, menuVars, reconVars>>

(***************************************************************************)
(* Initial states and specifications                                       *)
(***************************************************************************)
BoolIdle == tbArg = JSUndefined /\ tbRes = [done |-> FALSE, value |-> FALSE]

SnapIdle ==
    /\ payload = JSNull
    /\ built = [done |-> FALSE, states |-> AllOff, threw |-> FALSE]

MenuIdle ==
    /\ variant = "anchored" /\ anchors = FALSE /\ menuPc = "off"
    /\ sidebarOff = TRUE /\ overlayHidden = TRUE /\ panelStyle = ""
    /\ ariaExpanded = "absent" /\ path = <<"/">> /\ active = {} /\ events = <<>>

ReconIdle ==
    /\ readyState = "complete" /\ hasLoadIcons = FALSE /\ wrapped = FALSE
    /\ scriptPc = "off" /\ listener = FALSE /\ page = <<>> /\ text = <<>>
    /\ on = <<>> /\ recons = <<>> /\ calls = <<>>

PathTokens == {"/", "events", "health", "ui"}

\* location.pathname starts with a slash
Paths == {p \in SeqsUpTo(PathTokens, MaxPathLen) : p # <<>> /\ p[1] = "/"}

InitBool == BoolIdle /\ SnapIdle /\ MenuIdle /\ ReconIdle

InitSnap ==
    /\ payload \in Payloads
    /\ built = [done |-> FALSE, states |-> AllOff, threw |-> FALSE]
    /\ BoolIdle /\ MenuIdle /\ ReconIdle

\* the page as served: the menu closed, no link marked
InitMenu ==
    /\ variant \in Variants
    /\ anchors \in (IF variant = "anchored" THEN BOOLEAN ELSE {FALSE})
    /\ ariaExpanded \in (IF variant = "anchored" THEN {"absent", "false"} ELSE {"absent"})
    /\ menuPc = "boot"
    /\ sidebarOff = TRUE /\ overlayHidden = TRUE /\ panelStyle = ""
    /\ path \in Paths
    /\ active = {} /\ events = <<>>
    /\ BoolIdle /\ SnapIdle /\ ReconIdle

Init ==
    /\ readyState \in {"loading", "complete"}
    /\ hasLoadIcons \in BOOLEAN
    /\ wrapped = FALSE /\ scriptPc = "boot" /\ listener = FALSE
    /\ page \in Pages
    /\ \E t \in Texts : text = [c \in DOMAIN page |-> t]
    /\ on = [c \in DOMAIN page |-> FALSE]
    /\ recons = <<>> /\ calls = <<>>
    /\ BoolIdle /\ SnapIdle /\ MenuIdle

NextBool == ToBoolCall

NextSnap == BuildSnapshot

NextMenu ==
    \/ MenuInit
    \/ TriggerClick
    \/ BackdropClick
    \/ CloseButtonClick
    \/ KeyDown

Next ==
    \/ ScriptRuns
    \/ DOMContentLoaded
    \/ CallLoadIcons
    \/ OrigSettles
    \/ FetchSettles
    \/ JsonSettles

SpecBool == InitBool /\ [][NextBool]_vars
SpecSnap == InitSnap /\ [][NextSnap]_vars
SpecMenu == InitMenu /\ [][NextMenu]_vars
Spec     == Init /\ [][Next]_vars

(***************************************************************************)
(* Properties                                                              *)
(***************************************************************************)
\* what a control is expected to show: slot k of the snapshot, off, the
\* displayed text, or nothing (no .js-display element)
Slot(k)  == [kind |-> "slot", k |-> k]
ShowOff  == [kind |-> "off", k |-> 0]
ShowText == [kind |-> "text", k |-> 0]
ShowNone == [kind |-> "none", k |-> 0]

OnTexts == {TextOn, TextYes}

Shown(e, txt, snap) ==
    CASE e.kind = "slot" -> ~snap.isNull /\ snap.a[e.k]
      [] e.kind = "text" -> txt \in OnTexts
      [] OTHER           -> FALSE

\* the controls of PageEdges, in order: "0" "2" "31" "32" "-1" "1.5" "abc",
\* no index, other/"2", no source/"0", "", " 2 ", "Infinity", "2.0",
\* other without display, "-0"
EdgesAsCoded ==
    << Slot(0), Slot(2), Slot(31), ShowOff, ShowOff, ShowOff, ShowText, ShowText,
       ShowText, ShowText, Slot(0), Slot(2), ShowText, Slot(2), ShowNone, Slot(0) >>

EdgesAsClaimed == [EdgesAsCoded EXCEPT ![5] = ShowText, ![6] = ShowText]

ScenarioBExpected == <<Slot(2), ShowText>>

AsCoded   == IF page = PageEdges THEN EdgesAsCoded ELSE ScenarioBExpected
AsClaimed == IF page = PageEdges THEN EdgesAsClaimed ELSE ScenarioBExpected

\* run r of applyFromIPX leaves its last await in this step
Settles(r) == InFlight(r) /\ recons'[r].pc \notin {"fetch", "json"}

\* C1 (as amended): a run of applyFromIPX that paints sets every control with
\* source "ipx" and a finite Number(ipxIndex) to snapshot[ipxIndex] when the
\* snapshot is not null and the index is an integer in 0..31 and to off
\* otherwise (negative and fractional indices included), and every other
\* control to the boolean coercion of the text it displays at that moment.
C1_PaintsByFiniteIndexRule ==
    [][\A r \in DOMAIN recons :
          Settles(r) /\ recons'[r].pc = "done" =>
              \A c \in DOMAIN page :
                  on'[c] = Shown(AsCoded[c], text[c], recons'[r].snap)]_vars

C1_Witness ==
    /\ page = PageEdges
    /\ \E r \in DOMAIN recons : recons[r].pc = "done" /\ ~recons[r].snap.isNull
    /\ text[5] = TextOn
    /\ on[1] /\ ~on[5] /\ ~on[6] /\ on[7]

\* C1 (as claimed): as above, but a control with source "ipx" whose index is
\* negative or fractional is painted from its displayed text.
C1_PaintsByNonNegativeIntegerRule ==
    [][\A r \in DOMAIN recons :
          Settles(r) /\ recons'[r].pc = "done" =>
              \A c \in DOMAIN page :
                  on'[c] = Shown(AsClaimed[c], text[c], recons'[r].snap)]_vars

Failures == {"neterr", "notok", "badjson"}

PayloadEntries ==
    IF payload.t = "body" /\ payload.relays.t = "array" THEN payload.relays.a ELSE <<>>

\* the value is one of the integers 1 .. 32 (a numeric string counts as
\* its number)
IsRelayNumber(v) ==
    /\ v.t \in {"number", "string"}
    /\ LET n == ToNumber(v)
       IN  n.k = "fin" /\ n.q = 0 /\ n.fd = <<>> /\ ~n.neg /\ n.i \in 1 .. Capacity

RelayNumber(e) == ToNumber(e.relay).i

InRange(e) == e.t = "entry" /\ IsRelayNumber(e.relay)

\* no two entries report the same relay differently
Consistent(es) ==
    \A m, n \in DOMAIN es :
        InRange(es[m]) /\ InRange(es[n]) /\ RelayNumber(es[m]) = RelayNumber(es[n])
            => es[m].on = es[n].on

\* C3: in the snapshot built from a response, snapshot[relay-1] = on for
\* every entry with relay in 1..32, no other slot is set (an entry with
\* relay outside 1..32 changes nothing), and the snapshot has 32 slots.
C3_SnapshotMatchesInRangeEntries ==
    built.done /\ Consistent(PayloadEntries) =>
        /\ DOMAIN built.states = 0 .. Capacity - 1
        /\ \A m \in DOMAIN PayloadEntries :
              InRange(PayloadEntries[m]) =>
                  built.states[RelayNumber(PayloadEntries[m]) - 1]
                      = ToBoolean(PayloadEntries[m].on)
        /\ \A slot \in 0 .. Capacity - 1 :
              (\A m \in DOMAIN PayloadEntries :
                    ~(InRange(PayloadEntries[m]) /\ RelayNumber(PayloadEntries[m]) = slot + 1))
                  => built.states[slot] = FALSE

WellFormed(e) == InRange(e) /\ e.on.t = "boolean"

\* the snapshot the well-formed entries of a list give, the last one winning
WellFormedSnapshot(es) ==
    [slot \in 0 .. Capacity - 1 |->
        LET ms == {m \in DOMAIN es : WellFormed(es[m]) /\ RelayNumber(es[m]) = slot + 1}
        IN  IF ms = {} THEN FALSE
            ELSE es[CHOOSE m \in ms : \A n \in ms : n <= m].on.b]

\* C4: a malformed entry (non-integer relay, out-of-range relay, not an
\* object) sets no slot and does not stop the entries after it: the snapshot
\* is the one the well-formed entries alone give.
C4_MalformedEntriesIgnoredOneByOne ==
    built.done => built.states = WellFormedSnapshot(PayloadEntries)

\* the trigger is activated in this step
ClickStep == events' = Append(events, "click")

\* C5 (as amended): in the anchored variant every activation of the trigger
\* toggles the menu by the trigger's aria-expanded flag, and two clicks from
\* the initial state leave it closed; in the self-built variant every
\* activation opens the menu, and two clicks leave it open.
C5_TriggerTogglesAnchoredOpensSelfBuilt ==
    [][ClickStep =>
          /\ variant = "anchored" =>
                /\ IsOpen' = (ariaExpanded # "true")
                /\ IsOpen' = ~IsOpen
                /\ ariaExpanded' = (IF IsOpen' THEN "true" ELSE "false")
                /\ events' = <<"click", "click">> => ~IsOpen'
          /\ variant = "selfbuilt" =>
                /\ IsOpen'
                /\ events' = <<"click", "click">> => IsOpen']_vars

C5_Witness ==
    /\ variant = "anchored"
    /\ events = <<"click", "click">>
    /\ ~IsOpen /\ overlayHidden /\ ariaExpanded = "false"

\* C5 (as claimed): every activation of the trigger toggles the menu, and
\* two clicks from the initial state leave it closed.
C5_TriggerAlwaysToggles ==
    [][ClickStep =>
          /\ IsOpen' = ~IsOpen
          /\ events' = <<"click", "click">> => ~IsOpen']_vars

Slashes(n) == [k \in 1 .. n |-> "/"]

\* href is the path without its trailing slashes, "/" standing for a path
\* of slashes only
IsRouteOf(href, p) ==
    \/ /\ href # <<>> /\ href[Len(href)] # "/"
       /\ \E n \in 0 .. Len(p) : p = href \o Slashes(n)
    \/ /\ href = <<"/">>
       /\ \A k \in DOMAIN p : p[k] = "/"

\* C6: once the menu is initialised, a link is marked exactly when its href
\* is the current path without trailing slashes; at most one link is marked;
\* the path /events/ marks the /events link alone.
C6_ActiveLinkIsCurrentRoute ==
    menuPc = "ready" =>
        /\ \A k \in DOMAIN Links : k \in active <=> IsRouteOf(Links[k], path)
        /\ Cardinality(active) <= 1
        /\ path = <<"/", "events", "/">> => active = {2}

C6_Witness ==
    /\ menuPc = "ready"
    /\ path = <<"/", "events", "/", "/">>
    /\ active = {2}

ReconsOf(origin) == {r \in DOMAIN recons : recons[r].origin = origin}

\* C7: the startup run happens once (as soon as the script has run and the
\* document is parsed); a call of the wrapped routine starts no run before
\* the original routine has completed, has exactly one run in flight while
\* it awaits run(), and has returned only with that one run finished; it
\* throws only when the original routine threw, and then runs nothing.
C7_RunsOnceAtStartupAndAfterEachRender ==
    /\ Cardinality(ReconsOf(0)) <= 1
    /\ scriptPc = "boot" => recons = <<>>
    /\ scriptPc = "ran" /\ readyState # "loading" => Cardinality(ReconsOf(0)) = 1
    /\ \A r \in DOMAIN recons : recons[r].origin \in {0} \cup DOMAIN calls
    /\ \A k \in DOMAIN calls :
          /\ calls[k].pc \in {"orig", "threw"} => ReconsOf(k) = {}
          /\ calls[k].pc = "run" =>
                Cardinality(ReconsOf(k)) = 1 /\ \A r \in ReconsOf(k) : InFlight(r)
          /\ calls[k].pc = "returned" =>
                Cardinality(ReconsOf(k)) = 1
                    /\ \A r \in ReconsOf(k) : recons[r].pc = "done"

C7_Witness ==
    /\ \E k \in DOMAIN calls : calls[k].pc = "returned"
    /\ \E r \in ReconsOf(0) : recons[r].pc = "done"

\* the fifteen values section 8 of the specification lists, by expected result
ClaimedTrue ==
    { JSBool(TRUE), JSInt(1), JSInt(0 - 1), JSFin(FALSE, 0, 3, <<5>>),
      JSStr(<<"1">>), JSStr(<<"t","r","u","e">>), JSStr(<<"T","R","U","E">>),
      JSStr(<<"o","n">>), JSStr(<<"Y","e","s">>) }

ClaimedFalse ==
    { JSBool(FALSE), JSInt(0), JSStr(<<"0">>), JSStr(<<>>), JSNull, JSUndefined }

\* the strings that are one of the four words in any casing, padded
TruthyStrings ==
    {pre \o w \o post : pre \in PadStrings, post \in PadStrings,
                        w \in UNION {Casings(b) : b \in TruthyWords}}

RuleSaysTrue(v) ==
    \/ v = JSBool(TRUE)
    \/ v.t = "number" /\ v # JSInt(0) /\ v # JSFin(TRUE, 0, 0, <<>>)
    \/ v.t = "string" /\ v.s \in TruthyStrings

\* C8: toBool is true exactly for true, a non-zero number and a string that
\* trims and lower-cases to "1", "true", "on" or "yes"; on the fifteen
\* listed values it gives the listed results.
C8_ToBoolFollowsRule ==
    tbRes.done =>
        /\ tbRes.value = RuleSaysTrue(tbArg)
        /\ tbArg \in ClaimedTrue => tbRes.value
        /\ tbArg \in ClaimedFalse => ~tbRes.value

C8_Witness ==
    /\ tbRes.done
    /\ tbArg = JSStr(<<" ","Y","E","S","\t">>)
    /\ tbRes.value

\* C9: at most one run of applyFromIPX is between issuing its fetch and
\* painting.
C9_NoTwoReconciliationsOverlap ==
    Cardinality({r \in DOMAIN recons : InFlight(r)}) <= 1

\* C10: when no run is in flight, every index-driven control shows the
\* snapshot of the run that started last.
C10_ControlsShowLatestSnapshot ==
    /\ recons # <<>>
    /\ \A r \in DOMAIN recons : recons[r].pc = "done"
    => \A c \in DOMAIN page :
          AsCoded[c].kind \in {"slot", "off"} =>
              on[c] = Shown(AsCoded[c], text[c], recons[Len(recons)].snap)

=============================================================================
